---- MODULE Spec2Model ----
(***************************************************************************)
(* ddc-source-luasnip: the completion source of                            *)
(* denops/@ddc-sources/luasnip.ts as a state machine.                      *)
(*                                                                         *)
(* Strings are sequences of one-character strings, so that trim,           *)
(* toLowerCase, startsWith and includes are computed, not assumed.         *)
(* Times are milliseconds (Date.now()).  A gather call is suspended at its *)
(* two awaits on the bridge (denops.eval and denops.call), and calls of    *)
(* different slots interleave there.                                       *)
(***************************************************************************)
EXTENDS Integers, Sequences, FiniteSets, TLC

(***************************************************************************)
(* Bounds of the model.                                                    *)
(***************************************************************************)
\* The clock stops advancing at MaxTime.
MaxTime == 7500
\* Date.now() advances by one of these amounts between steps.
TickSteps == {2500}
\* How long the clock runs while the host overlaps calls.
OverlapMaxTime == 5000
\* The gather calls the host may have in flight at once.
Calls == {"g1", "g2"}

(***************************************************************************)
(* Strings.                                                                *)
(***************************************************************************)
Lower(ch) ==
  CASE ch = "F" -> "f"
    [] ch = "N" -> "n"
    [] ch = "V" -> "v"
    [] OTHER -> ch

toLowerCase(s) == [i \in 1..Len(s) |-> Lower(s[i])]

IsSpace(ch) == ch = " "

RECURSIVE trimStart(_)
trimStart(s) ==
  IF s # << >> /\ IsSpace(Head(s)) THEN trimStart(Tail(s)) ELSE s

RECURSIVE trimEnd(_)
trimEnd(s) ==
  IF s # << >> /\ IsSpace(s[Len(s)]) THEN trimEnd(SubSeq(s, 1, Len(s) - 1)) ELSE s

trim(s) == trimEnd(trimStart(s))

startsWith(s, p) == Len(p) <= Len(s) /\ SubSeq(s, 1, Len(p)) = p

includes(s, p) ==
  \E i \in 0..(Len(s) - Len(p)) : SubSeq(s, i + 1, i + Len(p)) = p

\* A JavaScript string is truthy iff it is not empty.
Truthy(s) == s # << >>

\* a || b on strings.
OrElse(a, b) == IF Truthy(a) THEN a ELSE b

RECURSIVE join(_, _)
join(parts, sep) ==
  IF parts = << >> THEN << >>
  ELSE IF Len(parts) = 1 THEN parts[1]
  ELSE parts[1] \o sep \o join(Tail(parts), sep)

(***************************************************************************)
(* Data.                                                                   *)
(***************************************************************************)
\* An element of a luaeval result that is no snippet table (null).
Null == [null |-> TRUE]

IsNull(snippet) == "null" \in DOMAIN snippet

\* What the engine has registered: a snippet's trigger, name, dscr, flags.
Registered(trigger, name, dscr, wordTrig, regTrig) ==
  [trigger |-> trigger, name |-> name, dscr |-> dscr,
   wordTrig |-> wordTrig, regTrig |-> regTrig]

SnipFn == Registered(<<"f", "n">>, <<"F", "n">>, <<"d">>, TRUE, FALSE)
SnipVar == Registered(<<"v">>, <<"V", "n">>, << >>, FALSE, FALSE)
SnipFx == Registered(<<"F", "x">>, << >>, << >>, FALSE, TRUE)

\* The Lua script of getSnippets: every registered snippet projected into
\* the LuaSnipData shape with the requested filetype.
LuaProject(snip, filetype) ==
  IF IsNull(snip) THEN snip
  ELSE [trigger |-> snip.trigger, name |-> snip.name,
        description |-> snip.dscr, wordTrig |-> snip.wordTrig,
        regTrig |-> snip.regTrig, filetype |-> filetype]

\* The engine's snippet tables for one filetype, in registration order.
SnippetLists ==
  { <<SnipFn, SnipVar, SnipFx>>, <<SnipFx, SnipFn>>, <<SnipVar, Null>> }

\* What luaeval of the getSnippets script currently does: return the
\* projected tables (the engine holds the same tables for every filetype
\* asked; each answer carries the filetype it was asked for), return
\* something that is no array, or fail.
UpstreamStates ==
  [kind : {"array"}, list : SnippetLists]
    \cup {[kind |-> "notarray", list |-> << >>], [kind |-> "error", list |-> << >>]}

\* denops.eval("&filetype"): a filetype string, or the bridge fails.
EvalOutcomes ==
  {[ok |-> TRUE, value |-> "typescript"], [ok |-> FALSE, value |-> ""]}

\* luaeval of the availability script: true, false, or the bridge fails.
ProbeOutcomes == {"true", "false", "throw"}

(***************************************************************************)
(* Source.params                                                           *)
(***************************************************************************)
params ==
  [mark |-> <<"[", "L", "S", "]">>,
   dup |-> FALSE,
   maxCandidates |-> 500,
   enableCache |-> TRUE,
   cacheTimeout |-> 5000,
   filetypes |-> << >>,
   excludeFiletypes |-> << >>,
   showCondition |-> TRUE,
   enableRegexTrigger |-> TRUE,
   debug |-> FALSE]

GatherArguments(input, sourceParams) ==
  [input |-> input, sourceParams |-> sourceParams]

\* The arguments the host passes to gather: the typed input and the defaults
\* overridden by user settings.
GatherArgs ==
  { GatherArguments(<< >>, params),
    GatherArguments(<<"N">>,
                    [params EXCEPT !.enableCache = FALSE, !.maxCandidates = -1]),
    GatherArguments(<<"f", " ">>, [params EXCEPT !.cacheTimeout = 2500]),
    GatherArguments(<<"F">>,
                    [params EXCEPT !.cacheTimeout = 7500, !.maxCandidates = 1,
                                   !.filetypes = <<"python", "typescript">>]),
    GatherArguments(<< >>, [params EXCEPT !.excludeFiletypes = <<"typescript">>]),
    GatherArguments(<< >>, [params EXCEPT !.filetypes = <<"python">>]),
    GatherArguments(<<" ">>,
                    [params EXCEPT !.filetypes = <<"typescript">>,
                                   !.excludeFiletypes = <<"typescript">>,
                                   !.dup = TRUE]) }

(***************************************************************************)
(* LuaSnipInterface                                                        *)
(***************************************************************************)
\* denops.call("luaeval", luaCode) of getSnippets for a filetype.
luaeval(up, filetype) ==
  [kind |-> up.kind,
   data |-> [i \in 1..Len(up.list) |-> LuaProject(up.list[i], filetype)]]

\* LuaSnipInterface.getSnippets after its await: a result that is no array,
\* and a failed call (caught and logged), both give the empty array.
getSnippetsResult(reply) ==
  IF reply.kind = "array" THEN reply.data ELSE << >>

\* LuaSnipInterface.isLuaSnipAvailable: Boolean(result), false when the
\* call fails.
isLuaSnipAvailable(probe) == probe = "true"

(***************************************************************************)
(* SnippetCache                                                            *)
(***************************************************************************)
\* SnippetCache.timeout, set by the constructor's default argument.
timeout == 5000

NoCache == [ft \in {} |-> 0]

CacheEntry(data, timestamp) == [data |-> data, timestamp |-> timestamp]

\* SnippetCache.get, first half: is there an entry young enough to serve?
cacheServes(c, filetype, now) ==
  /\ filetype \in DOMAIN c
  /\ (now - c[filetype].timestamp) < timeout

\* An entry stored without its first snippet.
cacheSetTail(c, filetype, data, now) ==
  [ft \in (DOMAIN c) \cup {filetype} |->
     IF ft = filetype
       THEN CacheEntry(IF data = << >> THEN data ELSE Tail(data), now)
       ELSE c[ft]]

\* SnippetCache.get, second half: this.cache.set(filetype, {data, timestamp}).
\* A store that keeps an entry of a later timestamp.
cacheSetNewest(c, filetype, data, now) ==
  IF filetype \in DOMAIN c /\ c[filetype].timestamp > now
    THEN c
    ELSE [ft \in DOMAIN c \cup {filetype} |->
            IF ft = filetype THEN CacheEntry(data, now) ELSE c[ft]]

cacheSet(c, filetype, data, now) ==
  [ft \in (DOMAIN c) \cup {filetype} |->
     IF ft = filetype THEN CacheEntry(data, now) ELSE c[ft]]

(***************************************************************************)
(* Source: the pure steps of gather                                        *)
(***************************************************************************)
Elem(arr, x) == \E i \in 1..Len(arr) : arr[i] = x

\* No restriction at all.
restrictedNever(filetype, sourceParams) == FALSE

\* The restrictions with the deny-list consulted only when no allow-list is
\* set.
restrictedAllowFirst(filetype, sourceParams) ==
  IF Len(sourceParams.filetypes) > 0
    THEN ~Elem(sourceParams.filetypes, filetype)
    ELSE Elem(sourceParams.excludeFiletypes, filetype)

\* Source.getSnippets, the filetype restrictions.
restricted(filetype, sourceParams) ==
  \/ Len(sourceParams.filetypes) > 0 /\ ~Elem(sourceParams.filetypes, filetype)
  \/ Elem(sourceParams.excludeFiletypes, filetype)

\* The callback of snippets.filter.
matches(snippet, inputLower) ==
  \/ startsWith(toLowerCase(snippet.trigger), inputLower)
  \/ Truthy(snippet.name) /\ includes(toLowerCase(snippet.name), inputLower)

\* Source.filterSnippets raises a TypeError when the callback reads the
\* trigger of an element that is null.
filterRaises(snippets, input) ==
  Truthy(trim(input)) /\ \E i \in 1..Len(snippets) : IsNull(snippets[i])

filterSnippets(snippets, input) ==
  IF ~Truthy(trim(input)) THEN snippets
  ELSE SelectSeq(snippets, LAMBDA s : matches(s, toLowerCase(input)))

buildInfoText(snippet) ==
  LET flags == (IF snippet.wordTrig THEN << <<"word trigger">> >> ELSE << >>)
               \o (IF snippet.regTrig THEN << <<"regex trigger">> >> ELSE << >>)
      parts == << <<"Trigger: ">> \o snippet.trigger >>
               \o (IF Truthy(snippet.name)
                     THEN << <<"Name: ">> \o snippet.name >> ELSE << >>)
               \o (IF Truthy(snippet.description)
                     THEN << <<"Description: ">> \o snippet.description >>
                     ELSE << >>)
               \o << <<"Filetype: ", snippet.filetype>> >>
               \o (IF Len(flags) > 0
                     THEN << <<"Flags: ">> \o join(flags, <<", ">>) >> ELSE << >>)
  IN join(parts, <<"\n">>)

Item(snippet, sourceParams) ==
  [word |-> snippet.trigger,
   abbr |-> OrElse(snippet.name, snippet.trigger),
   menu |-> trim(sourceParams.mark \o <<" ">> \o snippet.description),
   info |-> buildInfoText(snippet),
   kind |-> "Snippet",
   dup |-> sourceParams.dup]

\* Source.convertToItems raises a TypeError on an element that is null.
convertRaises(snippets) == \E i \in 1..Len(snippets) : IsNull(snippets[i])

convertToItems(snippets, sourceParams) ==
  [i \in 1..Len(snippets) |-> Item(snippets[i], sourceParams)]

Min(a, b) == IF a <= b THEN a ELSE b
Max(a, b) == IF a >= b THEN a ELSE b

\* No truncation at all.
sliceAll(items, end) == items

\* Truncation that keeps the last candidates instead of the first.
sliceTail(items, end) ==
  LET n == Len(items)
      k == IF end < 0 THEN (IF n + end > 0 THEN n + end ELSE 0)
           ELSE (IF end < n THEN end ELSE n)
  IN SubSeq(items, n - k + 1, n)

\* Array.prototype.slice(0, end): a negative end counts from the end.
slice(items, end) ==
  LET n == Len(items)
      k == IF end < 0 THEN Max(n + end, 0) ELSE Min(end, n)
  IN SubSeq(items, 1, k)

\* gather's try block from filterSnippets on: what it computes, or that it
\* raised.
gatherTry(snippets, a) ==
  IF filterRaises(snippets, a.input)
    THEN [raised |-> TRUE, filtered |-> << >>, items |-> << >>]
  ELSE LET filtered == filterSnippets(snippets, a.input)
       IN IF convertRaises(filtered)
            THEN [raised |-> TRUE, filtered |-> filtered, items |-> << >>]
            ELSE [raised |-> FALSE, filtered |-> filtered,
                  items |-> slice(convertToItems(filtered, a.sourceParams),
                                  a.sourceParams.maxCandidates)]

\* gather without its catch block: what was raised reaches the host.
gatherRethrow(outcome) ==
  [threw |-> outcome.raised, items |-> outcome.items]

\* gather's catch block: handleError logs, and gather returns [].
gatherCatch(outcome) ==
  [threw |-> FALSE,
   items |-> IF outcome.raised THEN << >> ELSE outcome.items]

(***************************************************************************)
(* State.                                                                  *)
(***************************************************************************)
VARIABLES
  isInitialized,  \* Source.isInitialized
  cache,          \* SnippetCache.cache: filetype -> {data, timestamp}
  clock,          \* Date.now()
  upstream,       \* what luaeval of the snippet script does at present
  call,           \* per slot, the gather call suspended there and its locals
  ret,            \* the gather call that returned last, as the host saw it
  everAvailable,  \* history: some onInit found the engine available
  initFailed      \* history: an onInit found the engine unavailable, and
                  \* none has found it available

vars ==
  <<isInitialized, cache, clock, upstream, call, ret, initFailed,
    everAvailable>>

\* The age of an entry that is not there.
NoAge == -1

\* No answer of the bridge is on its way.
NoReply == [kind |-> "none", data |-> << >>]

\* A slot no gather call occupies.
Idle ==
  [pc |-> "idle", args |-> GatherArguments(<< >>, params), filetype |-> "",
   now |-> 0, age |-> NoAge, dirty |-> FALSE, reply |-> NoReply]

\* Before any gather call has returned.
NoRet ==
  [valid |-> FALSE, args |-> GatherArguments(<< >>, params), how |-> "none",
   filetype |-> "", age |-> NoAge, failure |-> "none",
   snippets |-> << >>, filtered |-> << >>, items |-> << >>, threw |-> FALSE,
   afterFail |-> FALSE, stale |-> FALSE, dirty |-> FALSE,
   twin |-> FALSE, twinItems |-> << >>, twinStale |-> FALSE,
   overwrote |-> FALSE]

Init ==
  /\ isInitialized = FALSE
  /\ cache = NoCache
  /\ clock = 0
  /\ upstream \in UpstreamStates
  /\ call = [c \in Calls |-> Idle]
  /\ ret = NoRet
  /\ initFailed = FALSE
  /\ everAvailable = FALSE

\* The calls that went through getSnippets with a context key.
Keyed(how) == how \in {"restricted", "cache", "fetch", "direct"}

\* A gather call returns to the host.  how: the path it took; age: the age
\* SnippetCache.get computed for the entry it found, if it found one;
\* snippets: what getSnippets gave.  The record keeps the call's locals and,
\* as history, how the call relates to the call that returned before it.
Returned(c, a, how, filetype, age, failure, snippets, stale) ==
  LET try == gatherTry(snippets, a)
      out == IF how \in {"notready", "nocontext"}
               THEN [threw |-> FALSE, items |-> << >>]
               ELSE gatherCatch(try)
      ran == Keyed(how)
      \* same key, input and configuration as the call before, and no
      \* change upstream since either of the two began
      twin == /\ ret.valid /\ Keyed(ret.how) /\ ran
              /\ ret.args = a /\ ret.filetype = filetype
              /\ ~ret.dirty /\ ~call[c].dirty
  IN [valid |-> TRUE, args |-> a, how |-> how, filetype |-> filetype,
      age |-> age,
      failure |-> IF failure # "none" THEN failure
                  ELSE IF ran /\ try.raised THEN "data" ELSE "none",
      snippets |-> snippets,
      filtered |-> IF ran THEN try.filtered ELSE << >>,
      items |-> out.items, threw |-> out.threw,
      afterFail |-> (how = "notready" /\ initFailed),
      stale |-> stale, dirty |-> call[c].dirty,
      twin |-> twin,
      twinItems |-> IF twin THEN ret.items ELSE << >>,
      twinStale |-> (twin /\ ret.stale),
      \* the entry this call's cache.set replaces carries a later timestamp
      \* than the one it writes
      overwrote |-> /\ how = "fetch" /\ filetype \in DOMAIN cache
                    /\ cache[filetype].timestamp > call[c].now]

(***************************************************************************)
(* Source.onInit.  Its one await is the availability probe; the assignment *)
(* to isInitialized happens when the probe has answered.                   *)
(***************************************************************************)
\* onInit without its early return: the source is marked ready whatever the
\* probe answered.
OnInitNoReturn(probe) ==
  /\ isInitialized' = TRUE
  /\ everAvailable' = (everAvailable \/ probe = "true")
  /\ initFailed' = (~everAvailable' /\ (initFailed \/ probe # "true"))
  /\ UNCHANGED <<cache, clock, upstream, call, ret>>

OnInit(probe) ==
  /\ isInitialized' = (isInitialized \/ isLuaSnipAvailable(probe))
  /\ everAvailable' = (everAvailable \/ probe = "true")
  /\ initFailed' = (~everAvailable' /\ (initFailed \/ probe # "true"))
  /\ UNCHANGED <<cache, clock, upstream, call, ret>>

(***************************************************************************)
(* Source.gather.                                                          *)
(***************************************************************************)
SlotBefore(d, c) == d = "g1" /\ c = "g2"

\* gather is called: not initialized, it returns [] at once; otherwise it
\* awaits denops.eval("&filetype") in analyzeContext.
GatherStart(c, a) ==
  /\ call[c].pc = "idle"
  \* the slots are only names: a call takes the first free one
  /\ \A d \in Calls : call[d].pc = "idle" => ~SlotBefore(d, c)
  /\ IF ~isInitialized
       THEN /\ ret' = Returned(c, a, "notready", "", NoAge, "none", << >>, FALSE)
            /\ UNCHANGED call
       ELSE /\ call' = [d \in Calls |->
                  IF d = c
                    THEN [Idle EXCEPT !.pc = "analyze", !.args = a]
                    ELSE call[d]]
            /\ UNCHANGED ret
  /\ UNCHANGED <<isInitialized, cache, clock, upstream, initFailed, everAvailable>>

\* denops.eval answers.  analyzeContext, the restrictions of getSnippets and
\* the synchronous first half of SnippetCache.get follow without an await;
\* a cache miss, or a disabled cache, sends luaeval and awaits its answer.
AnalyzeReturn(c, ev) ==
  /\ call[c].pc = "analyze"
  /\ LET a == call[c].args
         sp == a.sourceParams
         filetype == IF ev.value = "" THEN "all" ELSE ev.value
         age == IF sp.enableCache /\ filetype \in DOMAIN cache
                  THEN clock - cache[filetype].timestamp ELSE NoAge
     IN IF ~ev.ok
          THEN /\ ret' = Returned(c, a, "nocontext", "", NoAge, "context", << >>,
                                  FALSE)
               /\ call' = [call EXCEPT ![c] = Idle]
        ELSE IF restricted(filetype, sp)
          THEN /\ ret' = Returned(c, a, "restricted", filetype, NoAge, "none",
                                  << >>, FALSE)
               /\ call' = [call EXCEPT ![c] = Idle]
        ELSE IF sp.enableCache /\ cacheServes(cache, filetype, clock)
          THEN /\ ret' = Returned(c, a, "cache", filetype, age, "none",
                                  cache[filetype].data,
                                  cache[filetype].data
                                    # getSnippetsResult(luaeval(upstream, filetype)))
               /\ call' = [call EXCEPT ![c] = Idle]
        ELSE /\ call' = [call EXCEPT ![c].pc = "luaeval", ![c].filetype = filetype,
                           ![c].now = IF sp.enableCache THEN clock ELSE 0,
                           ![c].age = age]
             /\ UNCHANGED ret
  /\ UNCHANGED <<isInitialized, cache, clock, upstream, initFailed,
                 everAvailable>>

\* The editor runs the call's Lua code against the engine as it is now; the
\* answer is on its way back to the call.
LuaEval(c) ==
  /\ call[c].pc = "luaeval"
  /\ call' = [call EXCEPT ![c].pc = "fetch",
                          ![c].reply = luaeval(upstream, call[c].filetype)]
  /\ UNCHANGED <<isInitialized, cache, clock, upstream, ret, initFailed,
                 everAvailable>>

\* The answer reaches the call: LuaSnipInterface.getSnippets returns,
\* SnippetCache.get stores what it got under the `now` it read before the
\* await, and gather filters, converts, truncates and returns.
FetchReturn(c) ==
  /\ call[c].pc = "fetch"
  /\ LET a == call[c].args
         reply == call[c].reply
         data == getSnippetsResult(reply)
         failure == CASE reply.kind = "error" -> "bridge"
                      [] reply.kind = "notarray" -> "response"
                      [] OTHER -> "none"
     IN /\ cache' = IF a.sourceParams.enableCache
                      THEN cacheSet(cache, call[c].filetype, data, call[c].now)
                      ELSE cache
        /\ ret' = Returned(c, a,
                           IF a.sourceParams.enableCache THEN "fetch" ELSE "direct",
                           call[c].filetype, call[c].age, failure, data, FALSE)
        /\ call' = [call EXCEPT ![c] = Idle]
  /\ UNCHANGED <<isInitialized, clock, upstream, initFailed,
                 everAvailable>>

(***************************************************************************)
(* The environment.                                                        *)
(***************************************************************************)
\* Time passes.
Tick(d) ==
  /\ clock + d <= MaxTime
  /\ clock' = clock + d
  /\ UNCHANGED <<isInitialized, cache, upstream, call, ret, initFailed,
                 everAvailable>>

\* The engine's snippets, or the bridge's health, change.
SetUpstream(up) ==
  /\ upstream # up
  /\ upstream' = up
  /\ call' = [c \in Calls |->
                IF call[c].pc = "idle" THEN call[c]
                ELSE [call[c] EXCEPT !.dirty = TRUE]]
  /\ ret' = IF ret.valid THEN [ret EXCEPT !.dirty = TRUE] ELSE ret
  /\ UNCHANGED <<isInitialized, cache, clock, initFailed, everAvailable>>

\* No gather call is suspended.
NoneInFlight == \A c \in Calls : call[c].pc = "idle"

\* The host issues gather requests one at a time: a call is made when the
\* call before it has returned.
Next ==
  \/ \E probe \in ProbeOutcomes : OnInit(probe)
  \/ \E c \in Calls, a \in GatherArgs : NoneInFlight /\ GatherStart(c, a)
  \/ \E c \in Calls, ev \in EvalOutcomes : AnalyzeReturn(c, ev)
  \/ \E c \in Calls : LuaEval(c)
  \/ \E c \in Calls : FetchReturn(c)
  \/ \E d \in TickSteps : Tick(d)
  \/ \E up \in UpstreamStates : SetUpstream(up)

Spec == Init /\ [][Next]_vars

\* The arguments of the calls the host overlaps: the cache enabled with its
\* default timeout, with and without the deny-list.
OverlapArgs ==
  { a \in GatherArgs : /\ a.sourceParams.cacheTimeout = params.cacheTimeout
                       /\ a.sourceParams.filetypes = << >>
                       /\ a.sourceParams.enableCache }

\* The host overlaps gather requests: a call is made while the call before it
\* is still suspended (rapid retyping).
NextOverlap ==
  \/ \E probe \in ProbeOutcomes : OnInit(probe)
  \/ \E c \in Calls, a \in OverlapArgs : GatherStart(c, a)
  \/ \E c \in Calls, ev \in EvalOutcomes : AnalyzeReturn(c, ev)
  \/ \E c \in Calls : LuaEval(c)
  \/ \E c \in Calls : FetchReturn(c)
  \/ \E d \in TickSteps : clock + d <= OverlapMaxTime /\ Tick(d)
  \/ \E up \in UpstreamStates : SetUpstream(up)

SpecOverlap == Init /\ [][NextOverlap]_vars

(***************************************************************************)
(* Properties.                                                             *)
(***************************************************************************)
\* What the last call's Configuration says.
CfgTimeout == ret.args.sourceParams.cacheTimeout
CfgMax == ret.args.sourceParams.maxCandidates

\* C1: an entry whose age is at least the cacheTimeout of the call's
\* Configuration is never served: a call that was served from the cache found
\* an entry younger than its cacheTimeout.
C1_ExpiredNeverServed ==
  (ret.valid /\ ret.how = "cache") => ret.age < CfgTimeout

\* C2: once onInit has found the engine unavailable (and no onInit has found
\* it available), the source is not ready, no gather call gets past the
\* readiness check, and every gather call made since returned the empty
\* sequence.
C2_UnavailableGathersEmpty ==
  (initFailed /\ ~everAvailable) =>
    /\ ~isInitialized
    /\ NoneInFlight
    /\ (ret.valid /\ ret.afterFail) =>
         (ret.how = "notready" /\ ret.items = << >> /\ ~ret.threw)

\* C2's case: a gather made after a failed onInit has returned, with typed
\* input that keeps every snippet and snippets present upstream.
C2_Witness ==
  /\ initFailed /\ ~everAvailable
  /\ ret.valid /\ ret.afterFail
  /\ ret.args = GatherArguments(<< >>, params)
  /\ upstream.kind = "array" /\ ~convertRaises(upstream.list)

\* C3: a fetch that failed (the bridge failed, or the answer was no array)
\* writes no cache entry: the step in which such a fetch returns leaves the
\* cache as it was.
C3_FailedFetchNotCached ==
  [][\A c \in Calls :
       (call[c].pc = "fetch" /\ call'[c].pc = "idle"
          /\ ret'.failure \in {"bridge", "response"})
       => cache' = cache]_vars

\* C4: for gather calls that go to the cache one after the other for the same
\* key: a call made within the cacheTimeout of the call whose fetch wrote the
\* entry does not fetch again (the two fetch at most once), and a call made
\* when the cacheTimeout has elapsed since then does fetch again.
C4_FetchOncePerTimeout ==
  (ret.valid /\ ret.how \in {"cache", "fetch"} /\ ret.age # NoAge) =>
    /\ ret.age < CfgTimeout => ret.how = "cache"
    /\ ret.age >= CfgTimeout => ret.how = "fetch"

\* C5 as stated: a gather call never returns more than maxCandidates
\* candidates, whatever maxCandidates is.  (Stated of the calls that returned
\* a candidate: an empty result already exceeds a negative maxCandidates.)
C5_Original ==
  (ret.valid /\ ret.items # << >>) => Len(ret.items) <= CfgMax

\* C5, amended: a gather call returns at most maxCandidates candidates when
\* maxCandidates is not negative; a negative maxCandidates drops that many
\* candidates from the end of the n that survive filtering, so that at most
\* max(n + maxCandidates, 0) are returned.
C5_AtMostMaxCandidates ==
  ret.valid =>
    Len(ret.items) <= (IF CfgMax >= 0 THEN CfgMax
                       ELSE Max(Len(ret.filtered) + CfgMax, 0))

\* C5's case: more snippets survived filtering than maxCandidates allows, and
\* the call returned exactly maxCandidates of them.
C5_Witness ==
  /\ ret.valid /\ CfgMax > 0
  /\ Len(ret.filtered) > CfgMax
  /\ Len(ret.items) = CfgMax

\* C6: gather never lets an exception reach the host, and a call during
\* which something failed (the context read, the bridge, the shape of the
\* answer, or an element of it) returns the empty sequence.
C6_GatherNeverThrows ==
  ret.valid =>
    /\ ~ret.threw
    /\ ret.failure # "none" => ret.items = << >>

\* C6's case: the answer held an element that is no snippet, filtering or
\* conversion raised on it, and the call has returned.
C6_Witness ==
  /\ ret.valid /\ ret.failure = "data"
  /\ \E i \in 1..Len(ret.snippets) : IsNull(ret.snippets[i])

\* The allow-list is set and does not hold the key, or the deny-list holds it.
Rejected(key, sp) ==
  \/ sp.filetypes # << >> /\ \A i \in 1..Len(sp.filetypes) : sp.filetypes[i] # key
  \/ \E i \in 1..Len(sp.excludeFiletypes) : sp.excludeFiletypes[i] = key

\* C7: a gather call whose context key the allow-list does not hold (the list
\* being set), or the deny-list holds, returns the empty sequence; so does one
\* whose key is in both lists.
C7_RejectedKeyIsEmpty ==
  (ret.valid /\ Keyed(ret.how) /\ Rejected(ret.filetype, ret.args.sourceParams))
    => ret.items = << >>

\* C7's case: the key is in both lists, the typed input keeps every snippet,
\* and snippets for the key are present upstream and in the cache.
C7_Witness ==
  /\ ret.valid /\ Keyed(ret.how)
  /\ Elem(ret.args.sourceParams.filetypes, ret.filetype)
  /\ Elem(ret.args.sourceParams.excludeFiletypes, ret.filetype)
  /\ trim(ret.args.input) = << >>
  /\ upstream.kind = "array" /\ ~convertRaises(upstream.list)
  /\ ret.filetype \in DOMAIN cache
  /\ Len(cache[ret.filetype].data) > 0
  /\ ~convertRaises(cache[ret.filetype].data)

\* The calls that retrieved snippets and filtered and converted them without
\* raising.
Processed ==
  ret.valid /\ ret.how \in {"cache", "fetch", "direct"} /\ ret.failure # "data"

\* The filter as the specification words it: the typed input is trimmed;
\* empty, it keeps everything; otherwise it keeps the snippets whose trigger
\* starts with it or whose name, if present, contains it, ignoring case.
KeptByPrefix(snippet, input) ==
  LET prefix == toLowerCase(trim(input))
  IN \/ prefix = << >>
     \/ startsWith(toLowerCase(snippet.trigger), prefix)
     \/ snippet.name # << >> /\ includes(toLowerCase(snippet.name), prefix)

\* C8: the snippets that survive input filtering are exactly the retrieved
\* snippets the trimmed, case-folded typed prefix keeps.
C8_FilterByTrimmedPrefix ==
  Processed =>
    ret.filtered
      = SelectSeq(ret.snippets, LAMBDA sn : KeptByPrefix(sn, ret.args.input))

\* a is b with some elements left out, the others in b's order.
RECURSIVE IsSubsequence(_, _)
IsSubsequence(a, b) ==
  IF a = << >> THEN TRUE
  ELSE IF b = << >> THEN FALSE
  ELSE IF Head(a) = Head(b) THEN IsSubsequence(Tail(a), Tail(b))
  ELSE IsSubsequence(a, Tail(b))

\* The candidate made of this snippet: its word and its label.
CandidateOf(item, snippet) ==
  /\ item.word = snippet.trigger
  /\ item.abbr = (IF snippet.name # << >> THEN snippet.name ELSE snippet.trigger)
  /\ item.kind = "Snippet"

\* The candidates are the first k surviving snippets, one to one, in order.
HeadOfSurvivors(k) ==
  /\ Len(ret.items) = k
  /\ \A i \in 1..k : CandidateOf(ret.items[i], ret.filtered[i])
  /\ IsSubsequence(ret.filtered, ret.snippets)

\* C9 as stated: the candidates are the first min(maxCandidates, n) of the n
\* surviving snippets (none when that number is negative).
C9_Original ==
  Processed => HeadOfSurvivors(Max(Min(CfgMax, Len(ret.filtered)), 0))

\* C9, amended: the candidates are the first k of the n surviving snippets,
\* one to one and in retrieval order, where k = min(maxCandidates, n) when
\* maxCandidates is not negative and k = max(n + maxCandidates, 0) when it is
\* negative.
C9_HeadInOrder ==
  Processed =>
    HeadOfSurvivors(IF CfgMax >= 0 THEN Min(CfgMax, Len(ret.filtered))
                    ELSE Max(Len(ret.filtered) + CfgMax, 0))

\* C9's case: filtering dropped a snippet from the middle, more survived than
\* maxCandidates allows, and the call returned the head.
C9_Witness ==
  /\ Processed /\ CfgMax > 0
  /\ Len(ret.filtered) > CfgMax
  /\ Len(ret.snippets) > Len(ret.filtered)
  /\ ret.filtered[1] = ret.snippets[1]
  /\ ret.filtered[2] # ret.snippets[2]
  /\ Len(ret.items) = CfgMax

\* C10 as stated: a gather call with the key, input and configuration of the
\* call before it, nothing having changed upstream since either began,
\* returns the candidates that call returned.  (Stated of the pairs in which
\* both calls returned candidates, so that no failed fetch, cached or not, is
\* involved.)
C10_Original ==
  (ret.valid /\ ret.twin /\ ret.items # << >> /\ ret.twinItems # << >>)
    => ret.items = ret.twinItems

\* C10, amended: ..., unless the first of the two was served a cache entry
\* that no longer matches upstream and the second refetched after that entry
\* expired.
C10_TwinCallsAgree ==
  (ret.valid /\ ret.twin /\ ~(ret.twinStale /\ ret.how = "fetch"))
    => ret.items = ret.twinItems

\* C10's case: the first of two such calls was served from the cache, the
\* entry expired, and the second refetched and returned the same candidates.
C10_Witness ==
  /\ ret.valid /\ ret.twin /\ ~ret.twinStale
  /\ ret.how = "fetch" /\ ret.age # NoAge
  /\ Len(ret.items) > 0

\* C11: overlapping gather calls are neither cancelled nor ordered.  A call
\* in flight leaves analysis without fetching only when a live entry serves
\* it, whatever other call is fetching the same key; a call whose luaeval is
\* in flight stays in flight until its own answer arrives; and the call whose
\* answer arrives returns the snippets of that answer and leaves, as the
\* key's cache entry, those snippets under the timestamp the call read before
\* it awaited, whatever entry was there.
C11_OverlappingFetchesRace ==
  [][\A c \in Calls :
       /\ (call[c].pc = "analyze" /\ call'[c].pc = "idle"
              /\ ret'.how \notin {"nocontext", "restricted"})
            => /\ ret'.how = "cache"
               /\ ret'.filetype \in DOMAIN cache
               /\ clock - cache[ret'.filetype].timestamp < timeout
       /\ call[c].pc = "luaeval" => call'[c].pc \in {"luaeval", "fetch"}
       /\ (call[c].pc = "fetch" /\ call'[c].pc = "fetch")
            => call'[c].reply = call[c].reply
       /\ (call[c].pc = "fetch" /\ call'[c].pc = "idle")
            => /\ ret'.how = "fetch"
               /\ ret'.snippets = getSnippetsResult(call[c].reply)
               /\ DOMAIN cache' = DOMAIN cache \cup {call[c].filetype}
               /\ cache'[call[c].filetype]
                    = [data |-> ret'.snippets, timestamp |-> call[c].now]]_vars

\* C11's case: the call that returned last read the clock before the call
\* whose entry it replaced, and the key's entry is now the one it wrote:
\* its snippets, which are not what the engine holds now, under its
\* earlier timestamp.
C11_Witness ==
  /\ ret.valid /\ ret.how = "fetch" /\ ret.overwrote
  /\ ret.filetype \in DOMAIN cache
  /\ cache[ret.filetype].data = ret.snippets
  /\ cache[ret.filetype].timestamp < clock
  /\ ret.snippets # << >>
  /\ ret.snippets # getSnippetsResult(luaeval(upstream, ret.filetype))
  /\ NoneInFlight

\* The last call met one of the conditions under which gather returns before
\* retrieval: the source was not initialized, the context read failed, or
\* the lists reject the call's key.
ShortCircuited ==
  /\ ret.valid
  /\ \/ ret.how = "notready"
     \/ ret.failure = "context"
     \/ Keyed(ret.how) /\ Rejected(ret.filetype, ret.args.sourceParams)

\* C12: a gather call that meets a short-circuit condition retrieves nothing
\* and issues no luaeval, and the cache is as it was: the cache changes only
\* in the step in which a call that awaited its luaeval returns, and no such
\* call is a short-circuited one.
C12_ShortCircuitLeavesCache ==
  /\ [](ShortCircuited =>
          /\ ret.how \in {"notready", "nocontext", "restricted"}
          /\ ret.snippets = << >>)
  /\ [][/\ cache' # cache =>
             (\E d \in Calls : call[d].pc = "fetch" /\ call'[d].pc = "idle")
         /\ \A c \in Calls :
              (call[c].pc \in {"luaeval", "fetch"} /\ call'[c].pc = "idle")
                => ~ShortCircuited']_vars

\* C12's case: the deny-list alone rejected the key of the last call, while
\* the cache holds snippets for that key and the engine has snippets for it.
C12_Witness ==
  /\ ShortCircuited /\ ret.how = "restricted"
  /\ ret.args.sourceParams.filetypes = << >>
  /\ ret.filetype \in DOMAIN cache
  /\ cache[ret.filetype].data # << >>
  /\ getSnippetsResult(luaeval(upstream, ret.filetype)) # << >>
  /\ NoneInFlight

====
